---- MODULE Spec2Model ----
(***************************************************************************)
(* The streaming chat client of the repository: the ChatBox component's    *)
(* sendMessage / stopStreaming handlers and the SSE frame reassembler in   *)
(* their read loop.  Two versions of the component are in the sources:     *)
(*   "stop"   src/frontend/src/components/ChatBox.js (has stopStreaming,   *)
(*            `data: end` only breaks the inner frame loop)                *)
(*   "cancel" src/unnamed/part_005 (no stopStreaming, `data: end` awaits   *)
(*            reader.cancel() before breaking the inner frame loop)        *)
(* Text is a sequence of code points, each written as a string; the bytes  *)
(* of the response body are the same strings for ASCII and the two bytes   *)
(* "C3" "A9" for the one non-ASCII character "U+E9".                       *)
(***************************************************************************)
EXTENDS Integers, Sequences, FiniteSets, TLC

\* ------------------------------------------------------------------ bounds
\* sessions the user starts in a run (a send while one is running is not
\* counted: the guard of sendMessage is what has to stop it)
MaxSessions == 1
\* frames the server sends over a whole run
MaxFrames == 2
\* bytes the server sends over a whole run
MaxBytes == 44

\* ------------------------------------------------------- string primitives
NULL == "null"

\* String.prototype.trim strips these (of the code points the model uses)
WhiteSpace == {" ", "\n"}

RECURSIVE TrimStart(_)
TrimStart(s) ==
  IF s # <<>> /\ Head(s) \in WhiteSpace THEN TrimStart(Tail(s)) ELSE s

RECURSIVE TrimEnd(_)
TrimEnd(s) ==
  IF s # <<>> /\ s[Len(s)] \in WhiteSpace
  THEN TrimEnd(SubSeq(s, 1, Len(s) - 1))
  ELSE s

\* s.trim()
Trim(s) == TrimEnd(TrimStart(s))

\* s.startsWith(p)
StartsWith(s, p) == Len(s) >= Len(p) /\ SubSeq(s, 1, Len(p)) = p

\* s.slice(from) with a 0-based index, as in the source
SliceFrom(s, from) == SubSeq(s, from + 1, Len(s))

\* s.slice(0, to) with a 0-based exclusive end
SliceTo(s, to) == SubSeq(s, 1, to)

\* buffer.indexOf("\n\n"): 0-based index of the leftmost blank line, or -1
IndexOfDelim(s) ==
  LET hits == { i \in 1..(Len(s) - 1) : s[i] = "\n" /\ s[i + 1] = "\n" }
  IN  IF hits = {} THEN -1
      ELSE (CHOOSE i \in hits : \A j \in hits : i <= j) - 1

\* 1-based position of the first `c` in s at or after position from, or 0
FirstAt(s, c, from) ==
  LET hits == { i \in from..Len(s) : s[i] = c }
  IN  IF hits = {} THEN 0 ELSE CHOOSE i \in hits : \A j \in hits : i <= j

\* ------------------------------------------------------------ TextDecoder
LeadByte == "C3"
ContByte == "A9"
Replacement == "U+FFFD"

\* decoder.decode(value, {stream: true}): `pending` is the incomplete
\* sequence the decoder holds back between calls.  Returns the decoded text
\* and the bytes still held.  A lead byte followed by its continuation
\* byte is one code point; a lead byte followed by anything else, and a
\* continuation byte with no lead before it, decode to U+FFFD; a lead byte
\* at the end of the input is held back.
Skip == "skip"

Decode(pending, bytes) ==
  LET all == pending \o bytes
      n == Len(all)
      out == [i \in 1..n |->
                IF all[i] = LeadByte
                THEN IF i = n THEN Skip
                     ELSE IF all[i + 1] = ContByte THEN "U+E9" ELSE Replacement
                ELSE IF all[i] = ContByte
                THEN IF i > 1 /\ all[i - 1] = LeadByte THEN Skip ELSE Replacement
                ELSE all[i]]
  IN  [text |-> SelectSeq(out, LAMBDA t : t # Skip),
       pending |-> IF n > 0 /\ all[n] = LeadByte THEN <<LeadByte>> ELSE <<>>]

\* ------------------------------------------------------------- JSON.parse
Digits == {"0", "1", "2", "3", "4", "5", "6", "7", "8", "9"}

\* JSON.parse(data), for the payloads a response of the model can carry:
\* an object with one string member, the empty object and an unsigned
\* integer parse; every other payload of the model is a SyntaxError.
\* kind "object" carries the member (key, value); kind "other" is a value
\* with no properties of interest; kind "throw" is the SyntaxError.
JSONParse(data) ==
  LET n == Len(data)
      q == IF n >= 3 THEN FirstAt(data, "\"", 3) ELSE 0
      r == IF q > 0 /\ n >= q + 3 THEN FirstAt(data, "\"", q + 3) ELSE 0
  IN
  IF data = <<"{", "}">> THEN [kind |-> "other", key |-> <<>>, value |-> <<>>]
  ELSE IF n >= 1 /\ \A i \in 1..n : data[i] \in Digits
  THEN [kind |-> "other", key |-> <<>>, value |-> <<>>]
  ELSE IF /\ n >= 7
          /\ data[1] = "{" /\ data[2] = "\""
          /\ q > 0 /\ n >= q + 3
          /\ data[q + 1] = ":" /\ data[q + 2] = "\""
          /\ r > 0 /\ r + 1 = n /\ data[n] = "}"
          /\ \A i \in (3..(q - 1)) \cup ((q + 3)..(r - 1)) :
                data[i] \notin {"\n", "\\"}
  THEN [kind |-> "object",
        key |-> SubSeq(data, 3, q - 1),
        value |-> SubSeq(data, q + 3, r - 1)]
  ELSE [kind |-> "throw", key |-> <<>>, value |-> <<>>]

\* ------------------------------------------------------------ conversation
AI == "ai"
USER == "user"

Msg(role, text) == [role |-> role, text |-> text]

\* useState([{ role: "ai", text: "Hello! ..." }]); the greeting is one token
Greeting == Msg(AI, <<"Hello! Ask me anything about Germany's Fiscal Code.">>)

ErrorPrefix == <<"E", "r", "r", "o", "r", ":", " ">>

\* an update of the last message that puts the new text in front
PrependToLast(msgs, t) ==
  [msgs EXCEPT ![Len(msgs)] = Msg(msgs[Len(msgs)].role, t \o msgs[Len(msgs)].text)]

\* prev => { out = [...prev]; out[last] = {...out[last], text: (text || "") + t} }
AppendToLast(msgs, t) ==
  [msgs EXCEPT ![Len(msgs)] = Msg(msgs[Len(msgs)].role, msgs[Len(msgs)].text \o t)]

\* prev => [...prev, { role: "ai", text: `Error: ${e}` }]
AppendError(msgs, e) == Append(msgs, Msg(AI, ErrorPrefix \o e))

\* ------------------------------------------------------ frame reassembler
EventPrefix == <<"e", "v", "e", "n", "t", ":">>
DataPrefix == <<"d", "a", "t", "a", ":">>
EndSentinel == <<"e", "n", "d">>
DeltaKey == <<"d", "e", "l", "t", "a">>
ErrorKey == <<"e", "r", "r", "o", "r">>

\* parsed?.delta and parsed?.error: the member's value, "" when absent
Member(parsed, key) ==
  IF parsed.kind = "object" /\ parsed.key = key THEN parsed.value ELSE <<>>

\* the payload handler with a SyntaxError reported instead of recovered
ApplyPayloadStrict(msgs, data) ==
  LET parsed == JSONParse(data) IN
  IF parsed.kind = "throw"
  THEN [messages |-> AppendError(msgs, data),
        ops |-> <<[op |-> "error", text |-> data]>>]
  ELSE IF Member(parsed, DeltaKey) # <<>>
  THEN [messages |-> AppendToLast(msgs, Member(parsed, DeltaKey)),
        ops |-> <<[op |-> "delta", text |-> Member(parsed, DeltaKey)]>>]
  ELSE IF Member(parsed, ErrorKey) # <<>>
  THEN [messages |-> AppendError(msgs, Member(parsed, ErrorKey)),
        ops |-> <<[op |-> "error", text |-> Member(parsed, ErrorKey)]>>]
  ELSE [messages |-> msgs, ops |-> <<>>]

\* The try/catch around JSON.parse for one payload that is not `end`:
\* the new messages and the update applied (history).
ApplyPayload(msgs, data) ==
  LET parsed == JSONParse(data) IN
  IF parsed.kind = "throw"
  THEN [messages |-> AppendToLast(msgs, data),
        ops |-> <<[op |-> "text", text |-> data]>>]
  ELSE IF Member(parsed, DeltaKey) # <<>>
  THEN [messages |-> AppendToLast(msgs, Member(parsed, DeltaKey)),
        ops |-> <<[op |-> "delta", text |-> Member(parsed, DeltaKey)]>>]
  ELSE IF Member(parsed, ErrorKey) # <<>>
  THEN [messages |-> AppendError(msgs, Member(parsed, ErrorKey)),
        ops |-> <<[op |-> "error", text |-> Member(parsed, ErrorKey)]>>]
  ELSE [messages |-> msgs, ops |-> <<>>]

\* The inner loop `while ((idx = buffer.indexOf("\n\n")) !== -1) {...}`:
\* runs until no delimiter is left or a `data: end` frame breaks out of it.
\* sawEnd tells which; ops is the history of the updates applied.
RECURSIVE ProcessFrames(_, _, _)
ProcessFrames(buf, msgs, ops) ==
  LET idx == IndexOfDelim(buf) IN
  IF idx = -1
  THEN [buffer |-> buf, messages |-> msgs, ops |-> ops, sawEnd |-> FALSE]
  ELSE
    LET raw == Trim(SliceTo(buf, idx))
        rest == SliceFrom(buf, idx + 2)
    IN
    IF raw = <<>> THEN ProcessFrames(rest, msgs, ops)
    ELSE IF StartsWith(raw, EventPrefix) THEN ProcessFrames(rest, msgs, ops)
    ELSE IF StartsWith(raw, DataPrefix)
    THEN LET data == Trim(SliceFrom(raw, Len(DataPrefix))) IN
         IF data = EndSentinel
         THEN [buffer |-> rest, messages |-> msgs, ops |-> ops, sawEnd |-> TRUE]
         ELSE LET r == ApplyPayload(msgs, data)
              IN  ProcessFrames(rest, r.messages, ops \o r.ops)
    ELSE ProcessFrames(rest, msgs, ops)

\* ------------------------------------------------------------- the server
\* The frames a response body is made of, by name, and their bytes as the
\* wire protocol writes them (each is followed by the blank-line delimiter).
FrameNames == {"delta", "error", "plain", "end", "number", "event", "multi"}

FrameBytes(name) ==
  CASE name = "delta" ->
         \* data: {"delta":"\u00e9"} in UTF-8
         <<"d", "a", "t", "a", ":", " ", "{", "\"", "d", "e", "l", "t", "a", "\"", ":", "\"", "C3", "A9", "\"", "}">>
    [] name = "error" ->
         \* data: {"error":"x"}
         <<"d", "a", "t", "a", ":", " ", "{", "\"", "e", "r", "r", "o", "r", "\"", ":", "\"", "x", "\"", "}">>
    [] name = "plain" ->
         \* data: hi
         <<"d", "a", "t", "a", ":", " ", "h", "i">>
    [] name = "end" ->
         \* data: end
         <<"d", "a", "t", "a", ":", " ", "e", "n", "d">>
    [] name = "number" ->
         \* data: 7
         <<"d", "a", "t", "a", ":", " ", "7">>
    [] name = "event" ->
         \* event: m\ndata: {"delta":"b"}
         <<"e", "v", "e", "n", "t", ":", " ", "m", "\n", "d", "a", "t", "a", ":", " ", "{", "\"", "d", "e", "l", "t", "a", "\"", ":", "\"", "b", "\"", "}">>
    [] name = "multi" ->
         \* data: {"delta":"a"}\ndata: {"delta":"b"}
         <<"d", "a", "t", "a", ":", " ", "{", "\"", "d", "e", "l", "t", "a", "\"", ":", "\"", "a", "\"", "}", "\n", "d", "a", "t", "a", ":", " ", "{", "\"", "d", "e", "l", "t", "a", "\"", ":", "\"", "b", "\"", "}">>

Delimiter == <<"\n", "\n">>

RECURSIVE StreamOf(_)
StreamOf(fs) ==
  IF fs = <<>> THEN <<>>
  ELSE FrameBytes(Head(fs)) \o Delimiter \o StreamOf(Tail(fs))

FrameSeqs(n) == UNION { [1..k -> FrameNames] : k \in 0..n }

\* the response bodies the server can send with n frames and b bytes left
Bodies(n, b) == { fs \in FrameSeqs(n) : Len(StreamOf(fs)) <= b }

\* fetch() settles with one of these responses
StatusOK == <<"2", "0", "0">>
StatusError == <<"5", "0", "0">>
Responses ==
  { [ok |-> TRUE, status |-> StatusOK, body |-> TRUE],
    [ok |-> TRUE, status |-> StatusOK, body |-> FALSE],
    [ok |-> FALSE, status |-> StatusError, body |-> TRUE] }

\* e.message of the errors the browser raises, each kept as one token
FetchFailure == <<"Failed to fetch">>
ReadFailure == <<"network error">>
AbortFailure == <<"The user aborted a request.">>

\* new Error(`HTTP ${resp.status}`).message
HttpFailure(r) == <<"H", "T", "T", "P", " ">> \o r.status

\* what the user may type into the input field
Inputs == { <<" ">>, <<" ", "q", " ">> }

\* ------------------------------------------------------------------ state
VARIABLES
  variant,    \* which version of ChatBox runs: "stop" or "cancel"
  messages,   \* useState messages
  input,      \* useState input
  loading,    \* useState loading
  abortRef,   \* abortRef.current: NULL or the session's AbortController
  aborted,    \* ctrl.signal.aborted of the latest AbortController
  pc,         \* where sendMessage is suspended: "idle" (not running),
              \* "fetch" (await fetch), "read" (await reader.read()),
              \* "cancel" (await reader.cancel())
  stream,     \* the bytes of the response body the server sends
  pos,        \* how many of them reader.read() has delivered
  cancelled,  \* reader.cancel() was called
  pending,    \* bytes the TextDecoder holds back
  buffer,     \* let buffer
  sessions,   \* fetches issued (AbortControllers created) so far
  budget,     \* frames the server may still send (bound of the model)
  bytes,      \* bytes the server may still send (bound of the model)
  frames,     \* history: the frames `stream` is made of
  openIdx,    \* history: index of the assistant message the session appended
  ended,      \* history: a `data: end` frame was handled in this session
  applied,    \* history: the updates applied in this session
  fault       \* history: what made the latest session throw, NULL if
              \* nothing did: "status", "nobody", "fetch", "read", "abort"

\* the locals of a running sendMessage and the history kept about it
sessionVars == <<stream, pos, cancelled, pending, buffer, frames, openIdx,
                 ended, applied>>

\* what the component and the running sendMessage hold
progVars ==
  <<messages, input, loading, abortRef, aborted, pc, stream, pos, cancelled,
    pending, buffer, sessions>>

vars ==
  <<variant, messages, input, loading, abortRef, aborted, pc, stream, pos,
    cancelled, pending, buffer, sessions, budget, bytes, frames, openIdx,
    ended, applied, fault>>

Variants == {"stop", "cancel"}

\* no sendMessage is running: it has no locals
NoSession(st, p, c, pe, b, fs, o, e, ap) ==
  /\ st = <<>>
  /\ p = 0
  /\ c = FALSE
  /\ pe = <<>>
  /\ b = <<>>
  /\ fs = <<>>
  /\ o = 0
  /\ e = FALSE
  /\ ap = <<>>

Init ==
  /\ variant \in Variants
  /\ messages = <<Greeting>>
  /\ input = <<>>
  /\ loading = FALSE
  /\ abortRef = NULL
  /\ aborted = FALSE
  /\ pc = "idle"
  /\ NoSession(stream, pos, cancelled, pending, buffer, frames, openIdx,
               ended, applied)
  /\ sessions = 0
  /\ budget = MaxFrames
  /\ bytes = MaxBytes
  /\ fault = NULL

\* ---------------------------------------------------------------- handlers
\* onChange={e => setInput(e.target.value)}
SetInput(v) ==
  /\ input # v
  /\ input' = v
  /\ UNCHANGED <<variant, messages, loading, abortRef, aborted, pc,
                 sessions, budget, bytes, fault, sessionVars>>

\* const ctrl = new AbortController(); one is live at a time
Controller == "ctrl"

\* the guard without its busy test
SendRejectedNotBusy == Trim(input) = <<>>

\* if (!input.trim() || loading) return;
SendRejected == Trim(input) = <<>> \/ loading

\* the append without the empty assistant message
WithQuestionOnly(msgs, question) == Append(msgs, Msg(USER, question))

\* setMessages(prev => [...prev, {role: "user", text: question}, {role: "ai", text: ""}])
WithQuestion(msgs, question) ==
  msgs \o <<Msg(USER, question), Msg(AI, <<>>)>>

\* sendMessage up to its first suspension, `await fetch(...)`
SendMessage ==
  IF SendRejected
     THEN UNCHANGED <<variant, messages, input, loading, abortRef, aborted,
                      pc, sessions, budget, bytes, fault, sessionVars>>
     ELSE /\ sessions < MaxSessions \/ loading
          /\ messages' = WithQuestion(messages, Trim(input))
          /\ input' = <<>>
          /\ loading' = TRUE
          /\ abortRef' = Controller
          /\ aborted' = FALSE
          /\ sessions' = sessions + 1
          /\ pc' = "fetch"
          /\ openIdx' = Len(messages) + 2
          /\ fault' = NULL
          /\ UNCHANGED <<variant, budget, bytes, stream, pos, cancelled,
                         pending, buffer, frames, ended, applied>>

\* ------------------------------------------------- sendMessage, continued
\* a finally block that forgets setLoading(false)
FinallyStaysBusy ==
  /\ loading' = loading
  /\ abortRef' = NULL
  /\ pc' = "idle"
  /\ NoSession(stream', pos', cancelled', pending', buffer', frames',
               openIdx', ended', applied')

\* finally { setLoading(false); abortRef.current = null; } and the return,
\* which drops the locals
Finally ==
  /\ loading' = FALSE
  /\ abortRef' = NULL
  /\ pc' = "idle"
  /\ NoSession(stream', pos', cancelled', pending', buffer', frames',
               openIdx', ended', applied')

\* a catch block that swallows the exception
CaughtSilently(msgs, e) == msgs

\* catch (e) { setMessages(prev => [...prev, {role: "ai", text: `Error: ${e.message}`}]) }
Caught(msgs, e) == AppendError(msgs, e)

\* an exception with message e leaves the try block
Throw(e) ==
  /\ messages' = Caught(messages, e)
  /\ Finally

\* if (!resp.ok || !resp.body) throw new Error(`HTTP ${resp.status}`)
BadResponse(r) == ~r.ok \/ ~r.body

\* `data: end`: "cancel" runs `try { await reader.cancel(); } catch {}`
\* before the break, "stop" breaks at once
AwaitsCancel == variant = "cancel"

\* await fetch(...) resolves with response r, whose body carries frames fs
FetchResolve(r, fs) ==
  /\ pc = "fetch"
  /\ IF BadResponse(r)
     THEN /\ fs = <<>>
          /\ Throw(HttpFailure(r))
          /\ fault' = IF r.ok THEN "nobody" ELSE "status"
          /\ UNCHANGED <<budget, bytes>>
     ELSE /\ fs \in Bodies(budget, bytes)
          /\ frames' = fs
          /\ stream' = StreamOf(fs)
          /\ budget' = budget - Len(fs)
          /\ bytes' = bytes - Len(StreamOf(fs))
          /\ pc' = "read"
          /\ UNCHANGED <<messages, loading, abortRef, pos, cancelled,
                         pending, buffer, openIdx, ended, applied, fault>>
  /\ UNCHANGED <<variant, input, aborted, sessions>>

\* await fetch(...) rejects: the network failed
FetchReject ==
  /\ pc = "fetch"
  /\ Throw(FetchFailure)
  /\ fault' = "fetch"
  /\ UNCHANGED <<variant, input, aborted, sessions, budget, bytes>>

\* function stopStreaming() { if (abortRef.current) abortRef.current.abort(); }
\* Only the "stop" version has the handler; its button is enabled while
\* loading.  abort() rejects the fetch or the read that sendMessage awaits
\* with an AbortError, and the continuation of sendMessage (catch, finally)
\* runs as a microtask of the same click, before any other handler.
StopStreaming ==
  /\ variant = "stop"
  /\ loading
  /\ IF abortRef # NULL
     THEN /\ aborted' = TRUE
          /\ Throw(AbortFailure)
          /\ fault' = "abort"
          /\ UNCHANGED <<variant, input, sessions, budget, bytes>>
     ELSE UNCHANGED <<variant, messages, input, loading, abortRef, aborted,
                      pc, sessions, budget, bytes, fault, sessionVars>>

\* await reader.read() resolves with the next k bytes: one pass of the
\* outer loop body, up to the next await
ReadChunk(k) ==
  /\ pc = "read"
  /\ ~cancelled
  /\ pos + k <= Len(stream)
  /\ \E d \in {Decode(pending, SubSeq(stream, pos + 1, pos + k))} :
     \E r \in {ProcessFrames(buffer \o d.text, messages, <<>>)} :
         /\ pending' = d.pending
         /\ buffer' = r.buffer
         /\ messages' = r.messages
         /\ applied' = applied \o r.ops
         /\ ended' = (ended \/ r.sawEnd)
         /\ IF r.sawEnd /\ AwaitsCancel
            THEN pc' = "cancel" /\ cancelled' = TRUE
            ELSE pc' = "read" /\ cancelled' = cancelled
  /\ pos' = pos + k
  /\ UNCHANGED <<variant, input, loading, abortRef, aborted, stream,
                 sessions, budget, bytes, frames, openIdx, fault>>

\* await reader.cancel() settles; a rejection is swallowed by `catch {}`
CancelDone ==
  /\ pc = "cancel"
  /\ pc' = "read"
  /\ UNCHANGED <<variant, messages, input, loading, abortRef, aborted,
                 sessions, budget, bytes, fault, sessionVars>>

\* a close of the stream that writes the unterminated buffer out as a delta
ReadDoneFlushing ==
  /\ messages' = (IF buffer = <<>> THEN messages
                  ELSE AppendToLast(messages, buffer))
  /\ Finally
  /\ UNCHANGED <<variant, input, aborted, sessions, budget, bytes, fault>>

\* `if (done) break;` then finally
ReadDone ==
  /\ messages' = messages
  /\ Finally
  /\ UNCHANGED <<variant, input, aborted, sessions, budget, bytes, fault>>

\* await reader.read() resolves {done: true}: the server closed the body
\* (after any number of the stream's bytes)
ReadClosed ==
  /\ pc = "read"
  /\ ~cancelled
  /\ ReadDone

\* await reader.read() resolves {done: true} on a reader that was cancelled
ReadCancelled ==
  /\ pc = "read"
  /\ cancelled
  /\ ReadDone

\* await reader.read() rejects: the connection failed mid-stream
ReadReject ==
  /\ pc = "read"
  /\ ~cancelled
  /\ Throw(ReadFailure)
  /\ fault' = "read"
  /\ UNCHANGED <<variant, input, aborted, sessions, budget, bytes>>

Next ==
  \/ \E v \in Inputs : SetInput(v)
  \/ SendMessage
  \/ \E r \in Responses : \E fs \in FrameSeqs(MaxFrames) : FetchResolve(r, fs)
  \/ FetchReject
  \/ StopStreaming
  \/ \E k \in 1..(Len(stream) - pos) : ReadChunk(k)
  \/ CancelDone
  \/ ReadClosed
  \/ ReadCancelled
  \/ ReadReject

Spec == Init /\ [][Next]_vars

\* Every promise sendMessage awaits settles.  The transport ends a stalled
\* request (the only timeout policy there is), so a fetch or a read that
\* nothing else settles is rejected; a read on a cancelled reader resolves
\* with done, and reader.cancel() settles.  Spec states no fairness.
FairSpec ==
  /\ Spec
  /\ WF_vars(FetchReject)
  /\ WF_vars(ReadReject)
  /\ WF_vars(CancelDone)
  /\ WF_vars(ReadCancelled)

\* ------------------------------------------------------------ properties
\* How many of the session's frames are complete (delimiter included) in
\* the first p bytes of the body.
FrameEnd(i) == Len(StreamOf(SubSeq(frames, 1, i)))
Complete(p) == Cardinality({ i \in 1..Len(frames) : FrameEnd(i) <= p })

\* a step in which reader.read() delivers a chunk
ChunkStep == pc = "read" /\ pos' > pos

\* a step in which sendMessage returns after `if (done) break`
DoneStep == pc = "read" /\ pc' = "idle" /\ fault' = NULL

\* the conversation as sendMessage left it when the session began
Opening == SubSeq(messages, 1, openIdx - 1) \o <<Msg(AI, <<>>)>>

UserCount(msgs) == Cardinality({ i \in 1..Len(msgs) : msgs[i].role = USER })

\* C1: for a fixed complete byte stream, every way of splitting it into
\* chunks applies the same updates and leaves the same conversation.  The
\* body the server sent is the bytes delivered when it closed the stream
\* (all of `stream` when the reader was cancelled); delivered as one chunk
\* it leaves OneChunk, and the session's own chunking must leave the same.
Body == IF cancelled THEN stream ELSE SliceTo(stream, pos)
OneChunk == ProcessFrames(Decode(<<>>, Body).text, Opening, <<>>)
C1_ChunkingIndependent ==
  [][DoneStep => (messages = OneChunk.messages /\ applied = OneChunk.ops)]_vars

\* C2: once a `data: end` frame has been handled in a session, no frame of
\* that session changes the conversation, whichever chunk carries it.
C2_NothingAfterEnd ==
  [][(ended /\ ChunkStep) => messages' = messages]_vars

\* C3: during a session every delta and every plain-text payload is in the
\* text of the assistant message sendMessage appended, and every error
\* payload is its own, unchanged `Error: <error>` message after it.
RECURSIVE DeltaText(_)
DeltaText(ops) ==
  IF ops = <<>> THEN <<>>
  ELSE (IF Head(ops).op \in {"delta", "text"} THEN Head(ops).text ELSE <<>>)
       \o DeltaText(Tail(ops))

RECURSIVE ErrorMessages(_)
ErrorMessages(ops) ==
  IF ops = <<>> THEN <<>>
  ELSE (IF Head(ops).op = "error"
        THEN <<Msg(AI, ErrorPrefix \o Head(ops).text)>>
        ELSE <<>>)
       \o ErrorMessages(Tail(ops))

C3_DeltasInOpenMessage ==
  pc \in {"read", "cancel"} =>
    messages = SubSeq(messages, 1, openIdx - 1)
               \o <<Msg(AI, DeltaText(applied))>>
               \o ErrorMessages(applied)

\* C4: when stopStreaming aborts a session, the session ends, loading
\* becomes false and no message is appended.
C4_SilentCancel ==
  [][(fault' = "abort" /\ fault # "abort") =>
       (pc' = "idle" /\ ~loading' /\ messages' = messages)]_vars

\* C5: while loading is true no step appends a user message, issues a
\* request or creates an AbortController: a sendMessage invoked then
\* changes nothing, so one session at most is active.
C5_OneSession ==
  [][loading =>
       /\ sessions' = sessions
       /\ UserCount(messages') = UserCount(messages)
       /\ abortRef' \in {abortRef, NULL}]_vars

C5_Witness ==
  /\ loading
  /\ Trim(input) # <<>>
  /\ pc = "read"
  /\ applied # <<>>

C7_EndStopsSession ==
  /\ [](ended => cancelled)
  /\ [][ended => (pos' = pos /\ (pc' = "idle" => messages' = messages))]_vars

\* C8: a transport failure (non-2xx status, missing body, rejected fetch,
\* rejected read) ends the session, appends exactly the one message
\* `Error: <message>` (`Error: HTTP 500` for status 500), clears loading,
\* and no request follows except from a send of a non-empty input at rest.
FaultText(f) ==
  CASE f = "status" -> <<"H", "T", "T", "P", " ", "5", "0", "0">>
    [] f = "nobody" -> <<"H", "T", "T", "P", " ", "2", "0", "0">>
    [] f = "fetch" -> FetchFailure
    [] f = "read" -> ReadFailure

TransportFaults == {"status", "nobody", "fetch", "read"}

C8_TransportFailure ==
  [][/\ (fault = NULL /\ fault' \in TransportFaults) =>
          /\ messages' = Append(messages, Msg(AI, ErrorPrefix \o FaultText(fault')))
          /\ ~loading'
          /\ abortRef' = NULL
          /\ pc' = "idle"
          /\ sessions' = sessions
     /\ sessions' # sessions => (pc = "idle" /\ Trim(input) # <<>>)]_vars

C8_Witness ==
  /\ fault = "status"
  /\ pc = "idle"
  /\ ~loading
  /\ messages = <<Greeting, Msg(USER, <<"q">>), Msg(AI, <<>>),
                  Msg(AI, <<"E", "r", "r", "o", "r", ":", " ",
                            "H", "T", "T", "P", " ", "5", "0", "0">>)>>

\* C9: a payload that is not `end` and not valid JSON does not end the
\* session and produces no error message: its text is appended, like a
\* delta, to the message that receives deltas, and the frames after it are
\* processed.  Stated for the chunks that complete frames among `data: hi`,
\* a JSON delta and a JSON number, at least one `data: hi`, before any
\* `data: end`.
PayloadText(name) ==
  CASE name = "plain" -> <<"h", "i">>
    [] name = "delta" -> <<"U+E9">>
    [] name = "number" -> <<>>

RECURSIVE TextOf(_)
TextOf(fs) ==
  IF fs = <<>> THEN <<>> ELSE PayloadText(Head(fs)) \o TextOf(Tail(fs))

Completed(p, q) == SubSeq(frames, Complete(p) + 1, Complete(q))

Question == <<"q">>

IsTrimOf(q, s) ==
  /\ q # <<>>
  /\ q[1] \notin WhiteSpace
  /\ q[Len(q)] \notin WhiteSpace
  /\ \E a \in 0..Len(s) :
        /\ a + Len(q) <= Len(s)
        /\ SubSeq(s, a + 1, a + Len(q)) = q
        /\ \A i \in (1..a) \cup ((a + Len(q) + 1)..Len(s)) : s[i] \in WhiteSpace

C10_Send ==
  [][/\ (pc = "idle" /\ ~IsTrimOf(Question, input)) =>
          (messages' = messages /\ loading' = loading /\ sessions' = sessions
           /\ pc' = pc /\ abortRef' = abortRef)
     /\ sessions' # sessions =>
          /\ sessions' = sessions + 1
          /\ IsTrimOf(Question, input)
          /\ messages' = messages \o <<Msg(USER, Question), Msg(AI, <<>>)>>
          /\ loading'
          /\ pc' = "fetch"
          /\ abortRef' # NULL]_vars

C10_Witness ==
  /\ pc = "fetch"
  /\ loading
  /\ sessions = 1
  /\ messages = <<Greeting, Msg(USER, <<"q">>), Msg(AI, <<>>)>>

\* the chunk completes exactly the frames fs, and no `data: end` frame has
\* been completed in the session
Completes(fs) ==
  /\ ChunkStep
  /\ Completed(pos, pos') = fs
  /\ \A i \in 1..Complete(pos) : frames[i] # "end"

\* C11: a frame made of an `event:` line and a `data:` line is applied as
\* the frame holding only that `data:` line would be: for
\* `event: m\ndata: {"delta":"b"}` the delta `b` is appended to the
\* message that receives deltas.
EventFrameData ==
  <<"{", "\"", "d", "e", "l", "t", "a", "\"", ":", "\"", "b", "\"", "}">>

C11_EventLinesIgnored ==
  [][Completes(<<"event">>) =>
       /\ messages' = ApplyPayload(messages, EventFrameData).messages
       /\ applied' = applied \o ApplyPayload(messages, EventFrameData).ops]_vars

\* C12: a frame carrying several delta payloads appends every one of them
\* in order and nothing else: for `data: {"delta":"a"}\ndata: {"delta":"b"}`
\* the message that receives deltas grows by `ab`.
C12_AllDeltasOfFrame ==
  [][Completes(<<"multi">>) =>
       messages' = AppendToLast(messages, <<"a", "b">>)]_vars

\* C13: while the buffer holds no blank-line delimiter, a chunk that
\* brings none changes neither the conversation nor the updates applied;
\* the updates applied never outnumber the frames whose delimiter has
\* arrived; and when the stream closes with text still buffered the
\* session returns normally with the conversation as it was.
C13_OnlyCompleteFrames ==
  /\ [][(ChunkStep /\ IndexOfDelim(buffer) = -1
                   /\ Complete(pos') = Complete(pos)) =>
          (messages' = messages /\ applied' = applied /\ pc' = "read")]_vars
  /\ [](pc \in {"read", "cancel"} => Len(applied) <= Complete(pos))
  /\ [][(pc = "read" /\ pc' = "idle" /\ fault' = NULL /\ buffer # <<>>) =>
          (messages' = messages /\ ~loading' /\ abortRef' = NULL)]_vars

\* `data: hi` was applied and the first bytes of the next frame are buffered
C13_Witness ==
  /\ pc = "read"
  /\ frames = <<"plain", "delta">>
  /\ Complete(pos) = 1
  /\ buffer = <<"d", "a", "t", "a", ":">>
  /\ applied = <<[op |-> "text", text |-> <<"h", "i">>]>>
  /\ messages = <<Greeting, Msg(USER, <<"q">>), Msg(AI, <<"h", "i">>)>>

\* text s begins with text p
IsPrefix(p, s) == Len(p) <= Len(s) /\ SubSeq(s, 1, Len(p)) = p

\* conversation `after` keeps every message of `before` in place, all but
\* the last unchanged, the last with its role and with its text extended
Extends(before, after) ==
  /\ Len(after) >= Len(before)
  /\ \A i \in 1..(Len(before) - 1) : after[i] = before[i]
  /\ after[Len(before)].role = before[Len(before)].role
  /\ IsPrefix(before[Len(before)].text, after[Len(before)].text)

\* the payloads of the frames a response can carry
Payloads ==
  { Trim(SliceFrom(FrameBytes(n), Len(DataPrefix))) :
      n \in {"delta", "error", "plain", "number", "multi"} }

\* C14: the conversation is append-only except for its last entry: every
\* step keeps the messages in place, changes none but the last, and changes
\* the last only while a session is active and only by extending its text;
\* so does each single update a payload makes.
C14_AppendOnly ==
  /\ [][/\ Extends(messages, messages')
        /\ messages'[Len(messages)] # messages[Len(messages)] =>
             (loading /\ pc = "read")]_vars
  /\ [](pc = "read" =>
          \A data \in Payloads :
             Extends(messages, ApplyPayload(messages, data).messages))

\* a payload extended the last message and an error message was appended
C14_Witness ==
  /\ pc = "read"
  /\ frames = <<"plain", "error">>
  /\ pos = Len(stream)
  /\ messages = <<Greeting, Msg(USER, <<"q">>), Msg(AI, <<"h", "i">>),
                  Msg(AI, ErrorPrefix \o <<"x">>)>>

====
